---- MODULE Spec2Model ----
(***************************************************************************)
(* Domain rules of the CRM: the Deal pipeline (app/models/deal.py and the  *)
(* handlers of app/routes/deals.py) and Lead scoring (app/models/lead.py,  *)
(* app/routes/leads.py).                                                    *)
(*                                                                         *)
(* Dates are day numbers 0..MaxDay; `today` is datetime.utcnow().date().   *)
(* Python None / SQL NULL is Null in numeric and date fields and NullStr   *)
(* in string fields.  Money amounts are whole currency units; a quotient   *)
(* is kept as an exact fraction in lowest terms.                           *)
(***************************************************************************)
EXTENDS Integers, Sequences, FiniteSets, TLC

VARIABLES deal, lead, today, call, trail, contacts, activities, tasks, sessions

vars == <<deal, lead, today, call, trail, contacts, activities, tasks, sessions>>

-----------------------------------------------------------------------------
(* Bounds *)

\* Last day of the modelled calendar.
MaxDay == 1

\* How many of the latest move_to_stage calls the pipeline trail keeps.
MaxTrail == 3

\* How many of the latest update_score calls the score trail keeps.
ScoreTrail == 2

\* How many Contact Updated notes the activities table takes.
MaxUpdates == 1

-----------------------------------------------------------------------------
(* Values *)

Null == -1

NullStr == "<None>"

Dates == 0..MaxDay

\* users.id -> users.role
Users == <<"admin", "user">>

UserIds == DOMAIN Users

Stages == {"prospecting", "qualified", "proposal", "negotiation", "closed_won", "closed_lost"}

\* Stage strings a caller can pass: the six stages and a string outside the table
StageInputs == Stages \cup {"on_hold"}

\* request.form.get('value', type=float): missing or unparsable, zero, negative, positive
ValueInputs == {Null, 0, -5, 3}

\* request.form.get('expected_close_date'): empty, malformed, or a %Y-%m-%d date
DateInputs ==
    {[text |-> "", day |-> Null], [text |-> "not-a-date", day |-> Null]}
    \cup {[text |-> "%Y-%m-%d", day |-> n] : n \in Dates}

ReasonInputs == {"", "price"}

TitleInputs == {"", "Acme"}

ContactInputs == {Null, 1}

\* Deal values of the pipeline scenario
PipelineValues == {3, 100000}

\* The form of create_lead and create_contact: complete, or without a first name
AnnForm ==
    [first_name |-> "Ann", last_name |-> "Lee", email |-> "ann@example.com",
     phone |-> "555-0100", company |-> "Acme", job_title |-> "CTO",
     source |-> "referral", notes |-> "met at expo"]

PersonForms == {AnnForm, [AnnForm EXCEPT !.first_name = ""]}

\* request.form.get('status', 'new') of edit_lead
LeadStatusInputs == {"new", "qualified", "converted"}

\* The form of edit_lead: it carries no email
EditLeadForms ==
    {[first_name |-> "Ann", last_name |-> "Lee", phone |-> "555-0100",
      company |-> c, job_title |-> "CTO", status |-> st,
      source |-> "referral", notes |-> "met at expo"] :
        c \in {"Acme", "Initech"}, st \in LeadStatusInputs}

\* The form of edit_contact: it carries no email
EditContactForms ==
    {[first_name |-> "Ann", last_name |-> "Lee", phone |-> "555-0100",
      company |-> c, job_title |-> "CTO", status |-> st,
      source |-> "referral", notes |-> "met at expo"] :
        c \in {"Acme", "Initech"}, st \in {"active", "archived"}}

\* request.json.get('points', 0): an integer, or a JSON value that is no number
PointsInputs ==
    {[json |-> "int", n |-> n] : n \in {-100, -1, 1, 30, 45, 100}}
    \cup {[json |-> "str", n |-> 0]}

\* Python truthiness of a number or None
Truthy(v) == v # Null /\ v # 0

\* Python truthiness of a string or None
TruthyStr(s) == s # NullStr /\ s # ""

-----------------------------------------------------------------------------
(* app/models/user.py *)

is_admin(u) == Users[u] = "admin"

can_edit(u, resource) == is_admin(u) \/ resource.owner_id = u

-----------------------------------------------------------------------------
(* app/models/deal.py *)

stage_probabilities ==
    [s \in Stages |->
        CASE s = "prospecting" -> 10
          [] s = "qualified"   -> 25
          [] s = "proposal"    -> 50
          [] s = "negotiation" -> 75
          [] s = "closed_won"  -> 100
          [] s = "closed_lost" -> 0]

\* dict.get(key, default)
stage_probabilities_get(s, default) ==
    IF s \in DOMAIN stage_probabilities THEN stage_probabilities[s] ELSE default

\* move_to_stage with the table lookup defaulting to 0 instead of the old value
move_to_stage_default_zero(d, new_stage, now) ==
    LET d1 == [d EXCEPT !.stage = new_stage,
                        !.probability = stage_probabilities_get(new_stage, 0)]
    IN  IF new_stage = "closed_won"
        THEN [d1 EXCEPT !.status = "won", !.actual_close_date = now]
        ELSE IF new_stage = "closed_lost"
        THEN [d1 EXCEPT !.status = "lost", !.actual_close_date = now]
        ELSE d1

\* move_to_stage that sets the stage and the status and forgets the probability
move_to_stage_stale_probability(d, new_stage, now) ==
    LET d1 == [d EXCEPT !.stage = new_stage]
    IN  IF new_stage = "closed_won"
        THEN [d1 EXCEPT !.status = "won", !.actual_close_date = now]
        ELSE IF new_stage = "closed_lost"
        THEN [d1 EXCEPT !.status = "lost", !.actual_close_date = now]
        ELSE d1

\* move_to_stage that reopens a deal moved to a stage that is not closed
move_to_stage_reopens(d, new_stage, now) ==
    LET d1 == [d EXCEPT !.stage = new_stage,
                        !.probability = stage_probabilities_get(new_stage, d.probability)]
    IN  IF new_stage = "closed_won"
        THEN [d1 EXCEPT !.status = "won", !.actual_close_date = now]
        ELSE IF new_stage = "closed_lost"
        THEN [d1 EXCEPT !.status = "lost", !.actual_close_date = now]
        ELSE [d1 EXCEPT !.status = "open", !.actual_close_date = Null]

move_to_stage(d, new_stage, now) ==
    LET d1 == [d EXCEPT !.stage = new_stage,
                        !.probability = stage_probabilities_get(new_stage, d.probability)]
    IN  IF new_stage = "closed_won"
        THEN [d1 EXCEPT !.status = "won", !.actual_close_date = now]
        ELSE IF new_stage = "closed_lost"
        THEN [d1 EXCEPT !.status = "lost", !.actual_close_date = now]
        ELSE d1

\* The close date ignored: always today
close_date_always_today(close_date, now) == now

\* close_date or datetime.utcnow().date()
close_date_or_today(close_date, now) == IF close_date # Null THEN close_date ELSE now

mark_as_won(d, close_date, now) ==
    [d EXCEPT !.status = "won",
              !.stage = "closed_won",
              !.probability = 100,
              !.actual_close_date = close_date_or_today(close_date, now)]

mark_as_lost(d, reason, close_date, now) ==
    [d EXCEPT !.status = "lost",
              !.stage = "closed_lost",
              !.probability = 0,
              !.lost_reason = reason,
              !.actual_close_date = close_date_or_today(close_date, now)]

RECURSIVE Gcd(_, _)
Gcd(a, b) == IF b = 0 THEN a ELSE Gcd(b, a % b)

Abs(n) == IF n < 0 THEN -n ELSE n

\* Python's true division n / d of two numbers, as an exact fraction in lowest terms
TrueDiv(n, d) ==
    LET g == Gcd(Abs(n), d)
    IN  [num |-> n \div g, den |-> d \div g]

\* Floor division (//) instead of true division (/)
get_weighted_value_floor(d) == [num |-> (d.value * d.probability) \div 100, den |-> 1]

get_weighted_value(d) == TrueDiv(d.value * d.probability, 100)

\* The status test left out
is_overdue_any_status(d, now) ==
    IF d.expected_close_date = Null
    THEN FALSE
    ELSE d.expected_close_date < now

is_overdue(d, now) ==
    IF d.expected_close_date = Null \/ d.status # "open"
    THEN FALSE
    ELSE d.expected_close_date < now

\* Deal(...) as create_deal constructs it: the given columns, everything else unset
Deal(value, stage, contact_id, owner_id, expected_close_date) ==
    [value |-> value,
     stage |-> stage,
     contact_id |-> contact_id,
     probability |-> Null,
     status |-> "open",
     owner_id |-> owner_id,
     expected_close_date |-> expected_close_date,
     actual_close_date |-> Null,
     lost_reason |-> NullStr]

\* INSERT: a column left None takes its column default
insert_defaults(d) ==
    [d EXCEPT !.probability = IF d.probability = Null THEN 10 ELSE d.probability]

-----------------------------------------------------------------------------
(* app/models/contact.py, app/models/activity.py, app/models/task.py *)

\* request.form.get('contact_id' / 'lead_id' / 'deal_id', type=int) of
\* create_activity and create_task: none given, or a contact and its deal
NoLinks == [contact_id |-> Null, lead_id |-> Null, deal_id |-> Null]

LinkInputs == {NoLinks, [contact_id |-> 1, lead_id |-> Null, deal_id |-> 1]}

\* INTEGER PRIMARY KEY of a new row: one more than the largest id in the table
NewId(rows) ==
    IF rows = {} THEN 1
    ELSE 1 + CHOOSE n \in {r.id : r \in rows} : \A r \in rows : r.id <= n

\* A contacts row: the columns the handlers of leads.py and contacts.py write
Contact(id, form, owner_id) ==
    [id |-> id,
     first_name |-> form.first_name,
     last_name |-> form.last_name,
     email |-> form.email,
     phone |-> form.phone,
     company |-> form.company,
     job_title |-> form.job_title,
     source |-> form.source,
     notes |-> form.notes,
     owner_id |-> owner_id,
     status |-> "active"]

\* An activities row; a column the caller leaves out is None
Activity(id, activity_type, subject, user_id, lead_id, contact_id, deal_id, is_completed, completed_at) ==
    [id |-> id,
     activity_type |-> activity_type,
     subject |-> subject,
     outcome |-> NullStr,
     user_id |-> user_id,
     lead_id |-> lead_id,
     contact_id |-> contact_id,
     deal_id |-> deal_id,
     scheduled_at |-> Null,
     is_completed |-> is_completed,
     completed_at |-> completed_at]

\* Activity.mark_completed(outcome=None)
activity_mark_completed(a, outcome, now) ==
    LET a1 == [a EXCEPT !.is_completed = TRUE, !.completed_at = now]
    IN  IF TruthyStr(outcome) THEN [a1 EXCEPT !.outcome = outcome] ELSE a1

TaskStatuses == {"pending", "in_progress", "completed", "cancelled"}

\* A tasks row; status takes its column default 'pending' unless given
Task(id, title, status, due_date, assigned_to, created_by, links) ==
    [id |-> id,
     contact_id |-> links.contact_id,
     lead_id |-> links.lead_id,
     deal_id |-> links.deal_id,
     title |-> title,
     status |-> IF status = NullStr THEN "pending" ELSE status,
     due_date |-> due_date,
     completed_at |-> Null,
     assigned_to |-> assigned_to,
     created_by |-> created_by]

task_mark_completed(t, now) ==
    [t EXCEPT !.status = "completed", !.completed_at = now]

\* Only a pending task counts as overdue
task_is_overdue_pending_only(t, now) ==
    IF t.status # "pending" \/ t.due_date = Null
    THEN FALSE
    ELSE t.due_date < now

\* Task.is_overdue()
task_is_overdue(t, now) ==
    IF t.status = "completed" \/ t.due_date = Null
    THEN FALSE
    ELSE t.due_date < now

\* The completed note a handler logs
LogActivity(id, subject, user_id, lead_id, contact_id, deal_id, now) ==
    Activity(id, "note", subject, user_id, lead_id, contact_id, deal_id, TRUE, now)

-----------------------------------------------------------------------------
(* Requests *)

\* The last request or method call that went through.  A request that is
\* refused (validation, permission) or rolled back leaves no trace.
NoCall == [op |-> "none"]

Call(op) == [op |-> op]

\* The requests being served at once, each with its own db.session
Slots == {1, 2}

\* A slot that serves no request
Idle == [op |-> "idle"]

NoSessions == [s \in Slots |-> Idle]

\* datetime.utcnow(), one instant per day of the calendar
utcnow == today

\* datetime.strptime(s, '%Y-%m-%d').date(), Null when it raises ValueError
parse_date(s) == IF s.text = "%Y-%m-%d" THEN s.day ELSE Null

\* The one deal of the model, deals.id = 1
DealId == 1

Exists == deal # <<>>

Row == deal[1]

-----------------------------------------------------------------------------
(* app/routes/deals.py *)
(* The note that move_deal_stage, mark_deal_won and mark_deal_lost add to   *)
(* the activities table with every request is left out: the deal model      *)
(* follows the deals row, and that log grows without bound.                 *)

\* The validation errors create_deal collects
create_deal_errors(title, value, contact_id) ==
    (IF ~(TruthyStr(title) /\ Truthy(value) /\ Truthy(contact_id))
     THEN {"Title, value and contact are required."} ELSE {})
    \cup
    (IF Truthy(value) /\ value < 0
     THEN {"Deal value must be positive."} ELSE {})

\* create_deal flashes 'Invalid date format.': strptime raised ValueError
create_deal_date_error(expected) ==
    TruthyStr(expected.text) /\ parse_date(expected) = Null

\* create_deal without the call of move_to_stage
create_deal_object_no_move(u, value, stage, contact_id, expected, now) ==
    Deal(value, stage, contact_id, u,
         IF TruthyStr(expected.text) THEN parse_date(expected) ELSE Null)

\* The Deal create_deal builds and moves to its stage, before the INSERT
create_deal_object(u, value, stage, contact_id, expected, now) ==
    LET exp_close_date == IF TruthyStr(expected.text) THEN parse_date(expected) ELSE Null
    IN  move_to_stage(Deal(value, stage, contact_id, u, exp_close_date), stage, now)

\* fail: which commit raises ("none", "first": the deal's, "second": the activity's)
create_deal(u, title, value, contact_id, stage, expected, fail) ==
    /\ ~Exists
    /\ IF create_deal_errors(title, value, contact_id) # {}
       THEN /\ UNCHANGED <<deal, activities, call>>
       ELSE IF fail = "first"
       THEN /\ UNCHANGED <<deal, activities, call>>
       ELSE /\ deal' = <<insert_defaults(
                           create_deal_object(u, value, stage, contact_id, expected, today))>>
            /\ activities' =
                  IF fail = "second" THEN activities
                  ELSE activities \cup
                       {LogActivity(NewId(activities), "Deal Created", u, Null, contact_id, DealId, utcnow)}
            /\ call' = Call("create_deal")
    /\ UNCHANGED <<lead, today, trail, contacts, tasks, sessions>>

\* edit_deal without the call of move_to_stage
edit_deal_object_no_move(d, value, stage, expected, now) ==
    LET d1 == [d EXCEPT !.value = value, !.stage = stage]
    IN  IF TruthyStr(expected.text) /\ parse_date(expected) # Null
        THEN [d1 EXCEPT !.expected_close_date = parse_date(expected)]
        ELSE d1

\* The fields edit_deal assigns from the form, then move_to_stage(deal.stage)
edit_deal_object(d, value, stage, expected, now) ==
    LET d1 == [d EXCEPT !.value = value, !.stage = stage]
        d2 == IF TruthyStr(expected.text) /\ parse_date(expected) # Null
              THEN [d1 EXCEPT !.expected_close_date = parse_date(expected)]
              ELSE d1
    IN  move_to_stage(d2, d2.stage, now)

\* The commit raises when the form carries no value: deals.value is NOT NULL
edit_deal(u, value, stage, expected) ==
    /\ Exists
    /\ IF ~can_edit(u, Row)
       THEN /\ UNCHANGED <<deal, call>>
       ELSE IF value = Null
       THEN /\ UNCHANGED <<deal, call>>
       ELSE /\ deal' = <<edit_deal_object(Row, value, stage, expected, today)>>
            /\ call' = Call("edit_deal")
    /\ UNCHANGED <<lead, today, trail, contacts, activities, tasks, sessions>>

\* db_fails: the commit raises
move_deal_stage(u, new_stage, db_fails) ==
    /\ Exists
    /\ IF ~can_edit(u, Row)
       THEN /\ UNCHANGED <<deal, call>>
       ELSE IF ~TruthyStr(new_stage)
       THEN /\ UNCHANGED <<deal, call>>
       ELSE IF db_fails
       THEN /\ UNCHANGED <<deal, call>>
       ELSE /\ deal' = <<move_to_stage(Row, new_stage, today)>>
            /\ call' = Call("move_deal_stage")
    /\ UNCHANGED <<lead, today, trail, contacts, activities, tasks, sessions>>

mark_deal_won(u, db_fails) ==
    /\ Exists
    /\ IF ~can_edit(u, Row)
       THEN /\ UNCHANGED <<deal, call>>
       ELSE IF db_fails
       THEN /\ UNCHANGED <<deal, call>>
       ELSE /\ deal' = <<mark_as_won(Row, Null, today)>>
            /\ call' = Call("mark_deal_won")
    /\ UNCHANGED <<lead, today, trail, contacts, activities, tasks, sessions>>

mark_deal_lost(u, reason, db_fails) ==
    /\ Exists
    /\ IF ~can_edit(u, Row)
       THEN /\ UNCHANGED <<deal, call>>
       ELSE IF db_fails
       THEN /\ UNCHANGED <<deal, call>>
       ELSE /\ deal' = <<mark_as_lost(Row, reason, Null, today)>>
            /\ call' = Call("mark_deal_lost")
    /\ UNCHANGED <<lead, today, trail, contacts, activities, tasks, sessions>>

-----------------------------------------------------------------------------
(* The Deal methods called on the deal directly, with every argument *)

Deal_move_to_stage(new_stage) ==
    /\ Exists
    /\ deal' = <<move_to_stage(Row, new_stage, today)>>
    /\ call' = Call("move_to_stage")
    /\ UNCHANGED <<lead, today, trail, contacts, activities, tasks, sessions>>

Deal_mark_as_won(close_date) ==
    /\ Exists
    /\ deal' = <<mark_as_won(Row, close_date, today)>>
    /\ call' = Call("mark_as_won")
    /\ UNCHANGED <<lead, today, trail, contacts, activities, tasks, sessions>>

Deal_mark_as_lost(reason, close_date) ==
    /\ Exists
    /\ deal' = <<mark_as_lost(Row, reason, close_date, today)>>
    /\ call' = Call("mark_as_lost")
    /\ UNCHANGED <<lead, today, trail, contacts, activities, tasks, sessions>>

\* Midnight UTC passes
Tick ==
    /\ today < MaxDay
    /\ today' = today + 1
    /\ UNCHANGED <<deal, lead, call, trail, contacts, activities, tasks, sessions>>

-----------------------------------------------------------------------------
(* The deal pipeline: requests and method calls on one deal *)

Init ==
    /\ deal = <<>>
    /\ lead = <<>>
    /\ today = 0
    /\ call = NoCall
    /\ trail = <<>>
    /\ contacts = {}
    /\ activities = {}
    /\ tasks = {}
    /\ sessions = NoSessions

DealNext ==
    \/ \E u \in UserIds, title \in TitleInputs, value \in ValueInputs,
          contact_id \in ContactInputs, stage \in StageInputs,
          expected \in DateInputs, fail \in {"none", "first", "second"} :
            create_deal(u, title, value, contact_id, stage, expected, fail)
    \/ \E u \in UserIds, value \in ValueInputs, stage \in StageInputs,
          expected \in DateInputs :
            edit_deal(u, value, stage, expected)
    \/ \E u \in UserIds, new_stage \in StageInputs \cup {"", NullStr}, db_fails \in BOOLEAN :
            move_deal_stage(u, new_stage, db_fails)
    \/ \E u \in UserIds, db_fails \in BOOLEAN : mark_deal_won(u, db_fails)
    \/ \E u \in UserIds, reason \in ReasonInputs, db_fails \in BOOLEAN :
            mark_deal_lost(u, reason, db_fails)
    \/ \E new_stage \in StageInputs : Deal_move_to_stage(new_stage)
    \/ \E close_date \in Dates \cup {Null} : Deal_mark_as_won(close_date)
    \/ \E reason \in ReasonInputs \cup {NullStr}, close_date \in Dates \cup {Null} :
            Deal_mark_as_lost(reason, close_date)
    \/ Tick

DealSpec == Init /\ [][DealNext]_vars

-----------------------------------------------------------------------------
(* The pipeline trail: a created deal moved from stage to stage, with the  *)
(* stage and probability seen after each move_to_stage call                *)

\* The latest n entries of a trail
Latest(t, n) == IF Len(t) <= n THEN t ELSE SubSeq(t, Len(t) - n + 1, Len(t))

Seen(d) == [stage |-> d.stage, probability |-> d.probability]

NoDate == [text |-> "", day |-> Null]

PipelineInit ==
    /\ \E v \in PipelineValues, s \in StageInputs :
          LET d == insert_defaults(create_deal_object(1, v, s, 1, NoDate, 0))
          IN  /\ deal = <<d>>
              /\ trail = <<Seen(d)>>
    /\ lead = <<>>
    /\ today = 0
    /\ call = Call("create_deal")
    /\ contacts = {}
    /\ activities = {}
    /\ tasks = {}
    /\ sessions = NoSessions

Pipeline_move_to_stage(new_stage) ==
    /\ Exists
    /\ deal' = <<move_to_stage(Row, new_stage, today)>>
    /\ trail' = Latest(Append(trail, Seen(deal'[1])), MaxTrail)
    /\ call' = Call("move_to_stage")
    /\ UNCHANGED <<lead, today, contacts, activities, tasks, sessions>>

PipelineNext == \E new_stage \in StageInputs : Pipeline_move_to_stage(new_stage)

PipelineSpec == PipelineInit /\ [][PipelineNext]_vars

-----------------------------------------------------------------------------
(* app/models/lead.py *)

Max(a, b) == IF a >= b THEN a ELSE b

Min(a, b) == IF a <= b THEN a ELSE b

\* The hot band starting above 70 instead of at 70
update_score_hot_above_70(l, points) ==
    LET score == Max(0, Min(100, l.score + points))
    IN  [l EXCEPT !.score = score,
                  !.temperature = IF score > 70 THEN "hot"
                                  ELSE IF score >= 40 THEN "warm"
                                  ELSE "cold"]

update_score(l, points) ==
    LET score == Max(0, Min(100, l.score + points))
    IN  [l EXCEPT !.score = score,
                  !.temperature = IF score >= 70 THEN "hot"
                                  ELSE IF score >= 40 THEN "warm"
                                  ELSE "cold"]

\* A lead created with temperature warm at score 0
Lead_created_warm(form, owner_id) ==
    [first_name |-> form.first_name,
     last_name |-> form.last_name,
     email |-> form.email,
     phone |-> form.phone,
     company |-> form.company,
     job_title |-> form.job_title,
     source |-> form.source,
     notes |-> form.notes,
     owner_id |-> owner_id,
     status |-> "new",
     score |-> 0,
     temperature |-> "warm",
     converted_to_contact_id |-> Null,
     converted_at |-> Null]

\* Lead(...) as create_lead constructs it, conversion columns unset
Lead(form, owner_id) ==
    [first_name |-> form.first_name,
     last_name |-> form.last_name,
     email |-> form.email,
     phone |-> form.phone,
     company |-> form.company,
     job_title |-> form.job_title,
     source |-> form.source,
     notes |-> form.notes,
     owner_id |-> owner_id,
     status |-> "new",
     score |-> 0,
     temperature |-> "cold",
     converted_to_contact_id |-> Null,
     converted_at |-> Null]

convert_to_contact(l, contact_id, now) ==
    [l EXCEPT !.status = "converted",
              !.converted_to_contact_id = contact_id,
              !.converted_at = now]

\* The one lead of the model, leads.id = 1
LeadId == 1

LeadRow == lead[1]

\* Lead.full_name
lead_full_name(l) == l.first_name \o " " \o l.last_name

\* Lead.to_dict, for the columns of the model
Lead_to_dict(l) ==
    [id |-> LeadId,
     first_name |-> l.first_name,
     last_name |-> l.last_name,
     full_name |-> lead_full_name(l),
     email |-> l.email,
     phone |-> l.phone,
     company |-> l.company,
     job_title |-> l.job_title,
     status |-> l.status,
     source |-> l.source,
     score |-> l.score,
     temperature |-> l.temperature,
     owner_id |-> l.owner_id]

-----------------------------------------------------------------------------
(* app/routes/leads.py *)

ScoreSeen(before, points, l) ==
    [before |-> before, points |-> points, score |-> l.score, temperature |-> l.temperature]

\* lead.score + points raises TypeError unless points is a number.
\* The trail is left to the specification that keeps one.
update_lead_score(u, points, db_fails) ==
    /\ lead # <<>>
    /\ IF ~can_edit(u, LeadRow)
       THEN UNCHANGED <<lead, call>>
       ELSE IF points.json # "int" \/ db_fails
       THEN UNCHANGED <<lead, call>>
       ELSE /\ lead' = <<update_score(LeadRow, points.n)>>
            /\ call' = Call("update_lead_score")
    /\ UNCHANGED <<deal, today, contacts, activities, tasks, sessions>>

\* Lead.update_score called on the lead directly
Lead_update_score(points) ==
    /\ lead # <<>>
    /\ lead' = <<update_score(LeadRow, points)>>
    /\ call' = Call("update_score")
    /\ UNCHANGED <<deal, today, contacts, activities, tasks, sessions>>

\* The score trail after a step: one more entry when update_score was applied
ScoreTrailed(applied, points) ==
    trail' = IF applied
             THEN Latest(Append(trail, ScoreSeen(LeadRow.score, points.n, lead'[1])), ScoreTrail)
             ELSE trail

\* The validation errors create_lead collects
create_lead_errors(form) ==
    (IF ~(TruthyStr(form.first_name) /\ TruthyStr(form.last_name) /\ TruthyStr(form.email))
     THEN {"First name, last name and email are required."} ELSE {})
    \cup
    (IF \E i \in DOMAIN lead : lead[i].email = form.email
     THEN {"Lead with this email already exists."} ELSE {})

\* fail: which commit raises ("none", "first": the lead's, "second": the activity's).
\* The model holds one lead: a request that would add a second is left out.
create_lead(u, form, fail) ==
    /\ lead = <<>> \/ create_lead_errors(form) # {}
    /\ IF create_lead_errors(form) # {}
       THEN UNCHANGED <<lead, activities, call>>
       ELSE IF fail = "first"
       THEN UNCHANGED <<lead, activities, call>>
       ELSE /\ lead' = <<Lead(form, u)>>
            /\ activities' =
                  IF fail = "second" THEN activities
                  ELSE activities \cup
                       {LogActivity(NewId(activities), "Lead Created", u, LeadId, Null, Null, utcnow)}
            /\ call' = Call("create_lead")
    /\ UNCHANGED <<deal, today, trail, contacts, tasks, sessions>>

\* The fields edit_lead assigns from the form
edit_lead_object(l, form) ==
    [l EXCEPT !.first_name = form.first_name,
              !.last_name = form.last_name,
              !.phone = form.phone,
              !.company = form.company,
              !.job_title = form.job_title,
              !.status = form.status,
              !.source = form.source,
              !.notes = form.notes]

edit_lead(u, form, db_fails) ==
    /\ lead # <<>>
    /\ IF ~can_edit(u, LeadRow)
       THEN UNCHANGED <<lead, call>>
       ELSE IF db_fails
       THEN UNCHANGED <<lead, call>>
       ELSE /\ lead' = <<edit_lead_object(LeadRow, form)>>
            /\ call' = Call("edit_lead")
    /\ UNCHANGED <<deal, today, trail, contacts, activities, tasks, sessions>>

\* contacts.email carries no UNIQUE constraint
contact_email_taken_never(cs, email) == FALSE

\* UNIQUE(contacts.email): the INSERT of a second row with this email raises
contact_email_taken(cs, email) == \E c \in cs : c.email = email

\* The contact owned by the converting user instead of the lead's owner
convert_lead_session_owner_is_user(l, cs, acts, u, now) ==
    LET id == NewId(cs)
    IN  [lead |-> convert_to_contact(l, id, now),
         contacts |-> cs \cup {Contact(id, l, u)},
         activities |-> acts \cup
             {LogActivity(NewId(acts), "Lead Converted", u, LeadId, id, Null, now)}]

\* What convert_lead has in its session when it commits: the contact copied
\* from the lead, the converted lead and the logged activity
convert_lead_session(l, cs, acts, u, now) ==
    LET id == NewId(cs)
    IN  [lead |-> convert_to_contact(l, id, now),
         contacts |-> cs \cup {Contact(id, l, l.owner_id)},
         activities |-> acts \cup
             {LogActivity(NewId(acts), "Lead Converted", u, LeadId, id, Null, now)}]

\* convert_lead without the test of lead.status
convert_lead_unguarded(u, db_fails) ==
    /\ lead # <<>>
    /\ IF ~can_edit(u, LeadRow)
       THEN UNCHANGED <<lead, contacts, activities, call>>
       ELSE IF contact_email_taken(contacts, LeadRow.email) \/ db_fails
       THEN UNCHANGED <<lead, contacts, activities, call>>
       ELSE LET session == convert_lead_session(LeadRow, contacts, activities, u, utcnow)
            IN  /\ lead' = <<session.lead>>
                /\ contacts' = session.contacts
                /\ activities' = session.activities
                /\ call' = Call("convert_lead")
    /\ UNCHANGED <<deal, today, trail, tasks, sessions>>

\* db_fails: the commit raises.  The flush raises when the email is taken.
convert_lead(u, db_fails) ==
    /\ lead # <<>>
    /\ IF ~can_edit(u, LeadRow)
       THEN UNCHANGED <<lead, contacts, activities, call>>
       ELSE IF LeadRow.status = "converted"
       THEN UNCHANGED <<lead, contacts, activities, call>>
       ELSE IF contact_email_taken(contacts, LeadRow.email) \/ db_fails
       THEN UNCHANGED <<lead, contacts, activities, call>>
       ELSE LET session == convert_lead_session(LeadRow, contacts, activities, u, utcnow)
            IN  /\ lead' = <<session.lead>>
                /\ contacts' = session.contacts
                /\ activities' = session.activities
                /\ call' = Call("convert_lead")
    /\ UNCHANGED <<deal, today, trail, tasks, sessions>>

\* Lead.convert_to_contact called on the lead directly
Lead_convert_to_contact(contact_id) ==
    /\ lead # <<>>
    /\ lead' = <<convert_to_contact(LeadRow, contact_id, utcnow)>>
    /\ call' = Call("convert_to_contact")
    /\ UNCHANGED <<deal, today, trail, contacts, activities, tasks, sessions>>

ScoreInit ==
    /\ \E u \in UserIds : lead = <<Lead(AnnForm, u)>>
    /\ deal = <<>>
    /\ today = 0
    /\ call = Call("create_lead")
    /\ trail = <<>>
    /\ contacts = {}
    /\ activities = {}
    /\ tasks = {}
    /\ sessions = NoSessions

ScoreNext ==
    \/ \E u \in UserIds, points \in PointsInputs, db_fails \in BOOLEAN :
            /\ update_lead_score(u, points, db_fails)
            /\ ScoreTrailed(can_edit(u, LeadRow) /\ points.json = "int" /\ ~db_fails, points)
    \/ \E points \in PointsInputs :
            points.json = "int" /\ Lead_update_score(points.n) /\ ScoreTrailed(TRUE, points)

ScoreSpec == ScoreInit /\ [][ScoreNext]_vars

-----------------------------------------------------------------------------
(* app/routes/contacts.py *)

\* The validation errors create_contact collects
create_contact_errors(form) ==
    (IF ~(TruthyStr(form.first_name) /\ TruthyStr(form.last_name) /\ TruthyStr(form.email))
     THEN {"First name, last name and email are required."} ELSE {})
    \cup
    (IF \E c \in contacts : c.email = form.email
     THEN {"Contact with this email already exists."} ELSE {})

\* fail: which commit raises ("none", "first": the contact's, "second": the activity's)
create_contact(u, form, fail) ==
    /\ IF create_contact_errors(form) # {}
       THEN UNCHANGED <<contacts, activities, call>>
       ELSE IF fail = "first"
       THEN UNCHANGED <<contacts, activities, call>>
       ELSE LET id == NewId(contacts)
            IN  /\ contacts' = contacts \cup {Contact(id, form, u)}
                /\ activities' =
                      IF fail = "second" THEN activities
                      ELSE activities \cup
                           {LogActivity(NewId(activities), "Contact Created", u, Null, id, Null,
                                        utcnow)}
                /\ call' = Call("create_contact")
    /\ UNCHANGED <<deal, lead, today, trail, tasks, sessions>>

\* The fields edit_contact assigns from the form
edit_contact_object(c, form) ==
    [c EXCEPT !.first_name = form.first_name,
              !.last_name = form.last_name,
              !.phone = form.phone,
              !.company = form.company,
              !.job_title = form.job_title,
              !.status = form.status,
              !.source = form.source,
              !.notes = form.notes]

ContactUpdates == {a \in activities : a.subject = "Contact Updated"}

\* fail: which commit raises ("none", "first": the edit's, "second": the activity's).
\* A request that would log one Contact Updated note too many is left out.
edit_contact(u, contact_id, form, fail) ==
    \E c \in contacts :
        /\ c.id = contact_id
        /\ fail = "none" /\ can_edit(u, c) => Cardinality(ContactUpdates) < MaxUpdates
        /\ IF ~can_edit(u, c)
           THEN UNCHANGED <<contacts, activities, call>>
           ELSE IF fail = "first"
           THEN UNCHANGED <<contacts, activities, call>>
           ELSE /\ contacts' = (contacts \ {c}) \cup {edit_contact_object(c, form)}
                /\ activities' =
                      IF fail = "second" THEN activities
                      ELSE activities \cup
                           {LogActivity(NewId(activities), "Contact Updated", u, Null, c.id, Null,
                                        utcnow)}
                /\ call' = Call("edit_contact")
        /\ UNCHANGED <<deal, lead, today, trail, tasks, sessions>>

\* delete_contact without the permission check
delete_contact_unchecked(u, contact_id, db_fails) ==
    \E c \in contacts :
        /\ c.id = contact_id
        /\ IF db_fails
           THEN UNCHANGED <<contacts, deal, activities, tasks, call>>
           ELSE LET deal_deleted == Exists /\ Row.contact_id = c.id
                IN  /\ contacts' = contacts \ {c}
                    /\ deal' = IF deal_deleted THEN <<>> ELSE deal
                    /\ activities' =
                          {a \in activities :
                              /\ a.contact_id # c.id
                              /\ ~(deal_deleted /\ a.deal_id = DealId)}
                    /\ tasks' = {t \in tasks : ~(deal_deleted /\ t.deal_id = DealId)}
                    /\ call' = Call("delete_contact")
        /\ UNCHANGED <<lead, today, trail, sessions>>

\* db.session.delete(contact): the cascade of Contact.deals and
\* Contact.activities, and of Deal.activities and Deal.tasks of a deleted deal
delete_contact(u, contact_id, db_fails) ==
    \E c \in contacts :
        /\ c.id = contact_id
        /\ IF ~can_edit(u, c)
           THEN UNCHANGED <<contacts, deal, activities, tasks, call>>
           ELSE IF db_fails
           THEN UNCHANGED <<contacts, deal, activities, tasks, call>>
           ELSE LET deal_deleted == Exists /\ Row.contact_id = c.id
                IN  /\ contacts' = contacts \ {c}
                    /\ deal' = IF deal_deleted THEN <<>> ELSE deal
                    /\ activities' =
                          {a \in activities :
                              /\ a.contact_id # c.id
                              /\ ~(deal_deleted /\ a.deal_id = DealId)}
                    /\ tasks' = {t \in tasks : ~(deal_deleted /\ t.deal_id = DealId)}
                    /\ call' = Call("delete_contact")
        /\ UNCHANGED <<lead, today, trail, sessions>>

-----------------------------------------------------------------------------
(* app/routes/activities.py *)

\* request.form.get('scheduled_at') / get('due_date'): empty, malformed, or
\* a %Y-%m-%dT%H:%M time
TimeInputs ==
    {[text |-> "", day |-> Null], [text |-> "not-a-time", day |-> Null]}
    \cup {[text |-> "%Y-%m-%dT%H:%M", day |-> n] : n \in Dates}

\* datetime.strptime(s, '%Y-%m-%dT%H:%M'), Null when it raises ValueError
parse_time(s) == IF s.text = "%Y-%m-%dT%H:%M" THEN s.day ELSE Null

OutcomeInputs == {"", "successful"}

\* The model holds one activity entered by a user
create_activity(u, activity_type, subject, scheduled_at, links, db_fails) ==
    /\ activities = {} \/ ~(TruthyStr(activity_type) /\ TruthyStr(subject))
    /\ IF ~(TruthyStr(activity_type) /\ TruthyStr(subject))
       THEN UNCHANGED <<activities, call>>
       ELSE IF db_fails
       THEN UNCHANGED <<activities, call>>
       ELSE LET sched_time == IF TruthyStr(scheduled_at.text) THEN parse_time(scheduled_at)
                              ELSE Null
                a == Activity(NewId(activities), activity_type, subject, u,
                              links.lead_id, links.contact_id, links.deal_id, FALSE, Null)
            IN  /\ activities' = activities \cup {[a EXCEPT !.scheduled_at = sched_time]}
                /\ call' = Call("create_activity")
    /\ UNCHANGED <<deal, lead, today, trail, contacts, tasks, sessions>>

complete_activity(u, activity_id, outcome, db_fails) ==
    \E a \in activities :
        /\ a.id = activity_id
        /\ IF a.user_id # u /\ ~is_admin(u)
           THEN UNCHANGED <<activities, call>>
           ELSE IF db_fails
           THEN UNCHANGED <<activities, call>>
           ELSE /\ activities' = (activities \ {a}) \cup {activity_mark_completed(a, outcome, utcnow)}
                /\ call' = Call("complete_activity")
        /\ UNCHANGED <<deal, lead, today, trail, contacts, tasks, sessions>>

\* Activity.mark_completed called on the activity directly
Activity_mark_completed(activity_id, outcome) ==
    \E a \in activities :
        /\ a.id = activity_id
        /\ activities' = (activities \ {a}) \cup {activity_mark_completed(a, outcome, utcnow)}
        /\ call' = Call("Activity.mark_completed")
        /\ UNCHANGED <<deal, lead, today, trail, contacts, tasks, sessions>>

\* assigned_to: request.form.get('assigned_to', type=int), Null when absent.
\* The model holds one task.
create_task(u, title, due_date, assigned_to, links, db_fails) ==
    /\ tasks = {} \/ ~TruthyStr(title)
    /\ IF ~TruthyStr(title)
       THEN UNCHANGED <<tasks, call>>
       ELSE IF db_fails
       THEN UNCHANGED <<tasks, call>>
       ELSE LET due_dt == IF TruthyStr(due_date.text) THEN parse_time(due_date) ELSE Null
                assignee == IF Truthy(assigned_to) THEN assigned_to ELSE u
            IN  /\ tasks' = tasks \cup {Task(NewId(tasks), title, NullStr, due_dt, assignee, u, links)}
                /\ call' = Call("create_task")
    /\ UNCHANGED <<deal, lead, today, trail, contacts, activities, sessions>>

complete_task(u, task_id, db_fails) ==
    \E t \in tasks :
        /\ t.id = task_id
        /\ IF t.assigned_to # u /\ ~is_admin(u)
           THEN UNCHANGED <<tasks, call>>
           ELSE IF db_fails
           THEN UNCHANGED <<tasks, call>>
           ELSE /\ tasks' = (tasks \ {t}) \cup {task_mark_completed(t, utcnow)}
                /\ call' = Call("complete_task")
        /\ UNCHANGED <<deal, lead, today, trail, contacts, activities, sessions>>

\* Task.mark_completed called on the task directly
Task_mark_completed(task_id) ==
    \E t \in tasks :
        /\ t.id = task_id
        /\ tasks' = (tasks \ {t}) \cup {task_mark_completed(t, utcnow)}
        /\ call' = Call("Task.mark_completed")
        /\ UNCHANGED <<deal, lead, today, trail, contacts, activities, sessions>>

\* Task(...) constructed and added directly, with any of the four statuses
Task_new(status, due_date, assigned_to) ==
    /\ tasks = {}
    /\ sessions = NoSessions
    /\ tasks' = {Task(1, "Call back", status, due_date, assigned_to, assigned_to, NoLinks)}
    /\ call' = Call("Task")
    /\ UNCHANGED <<deal, lead, today, trail, contacts, activities, sessions>>

-----------------------------------------------------------------------------
(* One task and one activity from their creation on *)

ActivitiesNext ==
    \/ \E u \in UserIds, activity_type \in {NullStr, "call"}, subject \in {"", "Intro call"},
          scheduled_at \in TimeInputs, links \in LinkInputs, db_fails \in BOOLEAN :
            create_activity(u, activity_type, subject, scheduled_at, links, db_fails)
    \/ \E u \in UserIds, outcome \in OutcomeInputs, db_fails \in BOOLEAN :
            complete_activity(u, 1, outcome, db_fails)
    \/ \E outcome \in OutcomeInputs \cup {NullStr} : Activity_mark_completed(1, outcome)
    \/ \E u \in UserIds, title \in {"", "Call back"}, due_date \in TimeInputs,
          assigned_to \in UserIds \cup {Null}, links \in LinkInputs, db_fails \in BOOLEAN :
            create_task(u, title, due_date, assigned_to, links, db_fails)
    \/ \E u \in UserIds, db_fails \in BOOLEAN : complete_task(u, 1, db_fails)
    \/ Task_mark_completed(1)
    \/ \E status \in TaskStatuses, due_date \in Dates \cup {Null}, assigned_to \in UserIds :
            Task_new(status, due_date, assigned_to)
    \/ Tick

ActivitiesSpec == Init /\ [][ActivitiesNext]_vars

-----------------------------------------------------------------------------
(* One lead from its creation on: edited, scored and converted *)

\* Points that take the score to 39, 40, 69 and 70
LeadPoints == {-100, 30, 39, 40}

LeadNext ==
    \/ \E u \in UserIds, form \in PersonForms, fail \in {"none", "first", "second"} :
            create_lead(u, form, fail)
    \/ \E u \in UserIds, form \in EditLeadForms, db_fails \in BOOLEAN :
            edit_lead(u, form, db_fails)
    \/ \E u \in UserIds, db_fails \in BOOLEAN : convert_lead(u, db_fails)
    \/ \E u \in UserIds, p \in LeadPoints, db_fails \in BOOLEAN :
            update_lead_score(u, [json |-> "int", n |-> p], db_fails) /\ UNCHANGED trail
    \/ \E contact_id \in {1, 2} : Lead_convert_to_contact(contact_id)
    \/ Tick

LeadSpec == Init /\ [][LeadNext]_vars

-----------------------------------------------------------------------------
(* A lead, a deal and a contact that exist, and every request that changes  *)
(* one of them, sent by either user                                         *)

\* A second person, for the contact that is not the lead's
BobForm == [AnnForm EXCEPT !.first_name = "Bob", !.email = "bob@example.com"]

\* The tables after create_lead, create_contact and create_deal by owner o
PermissionInit ==
    /\ \E o \in UserIds :
          /\ lead = <<Lead(AnnForm, o)>>
          /\ contacts = {Contact(1, BobForm, o)}
          /\ deal = <<insert_defaults(create_deal_object(o, 3, "proposal", 1, NoDate, 0))>>
          /\ activities =
                {LogActivity(1, "Lead Created", o, LeadId, Null, Null, 0),
                 LogActivity(2, "Contact Created", o, Null, 1, Null, 0),
                 LogActivity(3, "Deal Created", o, Null, 1, DealId, 0)}
    /\ tasks = {}
    /\ sessions = NoSessions
    /\ today = 0
    /\ call = Call("create_deal")
    /\ trail = <<>>

PermissionNext ==
    \/ \E u \in UserIds, form \in EditLeadForms :
            form.company = "Initech" /\ form.status # "new" /\ edit_lead(u, form, FALSE)
    \/ \E u \in UserIds : convert_lead(u, FALSE)
    \/ \E u \in UserIds :
            update_lead_score(u, [json |-> "int", n |-> 100], FALSE) /\ UNCHANGED trail
    \/ \E u \in UserIds, stage \in {"negotiation", "closed_lost"} :
            edit_deal(u, 3, stage, NoDate)
    \/ \E u \in UserIds : move_deal_stage(u, "qualified", FALSE)
    \/ \E u \in UserIds : mark_deal_won(u, FALSE)
    \/ \E u \in UserIds : mark_deal_lost(u, "price", FALSE)
    \/ \E u \in UserIds, contact_id \in {1, 2}, form \in EditContactForms :
            /\ form.company = "Initech"
            /\ form.status = "archived"
            /\ edit_contact(u, contact_id, form, "none")
    \/ \E u \in UserIds, contact_id \in {1, 2} : delete_contact(u, contact_id, FALSE)

PermissionSpec == PermissionInit /\ [][PermissionNext]_vars

-----------------------------------------------------------------------------
(* The create requests and edit_contact from empty tables, with each of     *)
(* their commits failing or not                                             *)

CreateNext ==
    \/ \E u \in UserIds, form \in PersonForms, fail \in {"none", "first", "second"} :
            create_lead(u, form, fail)
    \/ \E u \in UserIds, form \in PersonForms, fail \in {"none", "first", "second"} :
            create_contact(u, form, fail)
    \/ \E u \in UserIds, title \in TitleInputs, value \in ValueInputs,
          contact_id \in ContactInputs, expected \in DateInputs,
          fail \in {"none", "first", "second"} :
            create_deal(u, title, value, contact_id, "proposal", expected, fail)
    \/ \E u \in UserIds, form \in EditContactForms, fail \in {"none", "first", "second"} :
            edit_contact(u, 1, form, fail)

CreateSpec == Init /\ [][CreateNext]_vars

------------------------------------------------------------------------------
(* The read endpoints of app/routes, as functions of the acting user and of *)
(* the tables.  Paging, ordering and the search filters are left out.        *)

\* The rows of the leads and of the deals table
Leads == {lead[i] : i \in DOMAIN lead}

Deals == IF Exists THEN {Row} ELSE {}

\* query.filter_by(owner_id=current_user.id) unless the user is an admin
scoped(u, rows) == IF is_admin(u) THEN rows ELSE {r \in rows : r.owner_id = u}

list_contacts(u, cs) == scoped(u, cs)

list_leads(u, ls) == scoped(u, ls)

list_deals(u, ds) == scoped(u, ds)

\* The redirect or the 403 of a detail endpoint
Refused == [code |-> 403, rows |-> {}, deals |-> {}]

\* view_contact: the contact with contact.deals
view_contact(u, c, ds) ==
    IF ~is_admin(u) /\ c.owner_id # u THEN Refused
    ELSE [code |-> 200, rows |-> {c}, deals |-> {d \in ds : d.contact_id = c.id}]

api_get_contact(u, c) ==
    IF ~is_admin(u) /\ c.owner_id # u THEN Refused
    ELSE [code |-> 200, rows |-> {c}, deals |-> {}]

view_lead(u, l) ==
    IF ~is_admin(u) /\ l.owner_id # u THEN Refused
    ELSE [code |-> 200, rows |-> {l}, deals |-> {}]

view_deal(u, d) ==
    IF ~is_admin(u) /\ d.owner_id # u THEN Refused
    ELSE [code |-> 200, rows |-> {d}, deals |-> {}]

api_get_stats(u, cs, ls, ds) ==
    [total_contacts |-> Cardinality(scoped(u, cs)),
     total_leads |-> Cardinality(scoped(u, ls)),
     open_deals |-> Cardinality({d \in scoped(u, ds) : d.status = "open"}),
     won_deals |-> Cardinality({d \in scoped(u, ds) : d.status = "won"})]

------------------------------------------------------------------------------
(* A contact with its deal and its activities; tasks are added for the      *)
(* contact and for the deal, then the contact is deleted                     *)

\* request.form of create_task: no parent, the contact, the contact and its deal
CascadeLinks ==
    {NoLinks,
     [contact_id |-> 1, lead_id |-> Null, deal_id |-> Null],
     [contact_id |-> 1, lead_id |-> Null, deal_id |-> 1]}

CascadeNext ==
    \/ \E u \in UserIds, due_date \in TimeInputs, assigned_to \in UserIds \cup {Null},
          links \in CascadeLinks :
            create_task(u, "Call back", due_date, assigned_to, links, FALSE)
    \/ \E u \in UserIds, db_fails \in BOOLEAN : complete_task(u, 1, db_fails)
    \/ \E u \in UserIds, db_fails \in BOOLEAN : delete_contact(u, 1, db_fails)
    \/ Tick

CascadeSpec == PermissionInit /\ [][CascadeNext]_vars

------------------------------------------------------------------------------
(* Requests served at once.  Each request has its own db.session: it reads   *)
(* its rows, works on its copies, and the database sees its writes when it  *)
(* commits.  A step is one read phase or one commit.                         *)

Free(s) == sessions[s] = Idle

Serve(s, r) == sessions' = [sessions EXCEPT ![s] = r]

Done(s) == sessions' = [sessions EXCEPT ![s] = Idle]

\* A flush that drops the session's write when the row changed since the load
Flush_first_wins(row, loaded, obj) ==
    IF row # loaded THEN row
    ELSE [f \in DOMAIN row |-> IF obj[f] # loaded[f] THEN obj[f] ELSE row[f]]

\* db.session.commit() of a session that holds a loaded row: the UPDATE sets
\* the columns whose value differs from the value loaded; the models declare
\* no version column, so it goes through whatever the row holds by now
Flush(row, loaded, obj) ==
    [f \in DOMAIN row |-> IF obj[f] # loaded[f] THEN obj[f] ELSE row[f]]

\* leads.email carries no UNIQUE constraint
lead_email_taken_never(ls, email) == FALSE

\* UNIQUE(leads.email): the INSERT of a second row with this email raises
lead_email_taken(ls, email) == \E i \in DOMAIN ls : ls[i].email = email

\* create_contact up to its first commit: the form is read and validated
create_contact_read(s, u, form) ==
    /\ Free(s)
    /\ IF create_contact_errors(form) # {}
       THEN UNCHANGED sessions
       ELSE Serve(s, [op |-> "create_contact", pc |-> "add", u |-> u, form |-> form, id |-> Null])
    /\ UNCHANGED <<deal, lead, today, call, trail, contacts, activities, tasks>>

\* The first commit of create_contact: the INSERT, rolled back when it raises
create_contact_commit(s) ==
    /\ sessions[s].op = "create_contact" /\ sessions[s].pc = "add"
    /\ LET r == sessions[s]
           id == NewId(contacts)
       IN  IF contact_email_taken(contacts, r.form.email)
           THEN Done(s) /\ UNCHANGED <<contacts, call>>
           ELSE /\ contacts' = contacts \cup {Contact(id, r.form, r.u)}
                /\ Serve(s, [r EXCEPT !.pc = "log", !.id = id])
                /\ call' = Call("create_contact")
    /\ UNCHANGED <<deal, lead, today, trail, activities, tasks>>

\* The second commit of create_contact: the 'Contact Created' activity
create_contact_log(s) ==
    /\ sessions[s].op = "create_contact" /\ sessions[s].pc = "log"
    /\ LET r == sessions[s]
       IN  activities' = activities \cup
               {LogActivity(NewId(activities), "Contact Created", r.u, Null, r.id, Null, utcnow)}
    /\ Done(s)
    /\ UNCHANGED <<deal, lead, today, call, trail, contacts, tasks>>

\* create_lead up to its first commit
create_lead_read(s, u, form) ==
    /\ Free(s)
    /\ IF create_lead_errors(form) # {}
       THEN UNCHANGED sessions
       ELSE Serve(s, [op |-> "create_lead", pc |-> "add", u |-> u, form |-> form, id |-> Null])
    /\ UNCHANGED <<deal, lead, today, call, trail, contacts, activities, tasks>>

\* The first commit of create_lead; the new row takes the next id
create_lead_commit(s) ==
    /\ sessions[s].op = "create_lead" /\ sessions[s].pc = "add"
    /\ LET r == sessions[s]
       IN  IF lead_email_taken(lead, r.form.email)
           THEN Done(s) /\ UNCHANGED <<lead, call>>
           ELSE /\ lead' = Append(lead, Lead(r.form, r.u))
                /\ Serve(s, [r EXCEPT !.pc = "log", !.id = Len(lead) + 1])
                /\ call' = Call("create_lead")
    /\ UNCHANGED <<deal, today, trail, contacts, activities, tasks>>

\* The second commit of create_lead: the 'Lead Created' activity
create_lead_log(s) ==
    /\ sessions[s].op = "create_lead" /\ sessions[s].pc = "log"
    /\ LET r == sessions[s]
       IN  activities' = activities \cup
               {LogActivity(NewId(activities), "Lead Created", r.u, r.id, Null, Null, utcnow)}
    /\ Done(s)
    /\ UNCHANGED <<deal, lead, today, call, trail, contacts, tasks>>

\* convert_lead up to its flush: the lead is loaded, the permission and the
\* status are tested on the loaded row
convert_lead_read(s, u) ==
    /\ Free(s)
    /\ lead # <<>>
    /\ IF ~can_edit(u, LeadRow) \/ LeadRow.status = "converted"
       THEN UNCHANGED sessions
       ELSE Serve(s, [op |-> "convert_lead", u |-> u, loaded |-> LeadRow])
    /\ UNCHANGED <<deal, lead, today, call, trail, contacts, activities, tasks>>

\* The flush and the commit of convert_lead: the INSERT of the contact raises
\* when the email is taken and the whole session is rolled back
convert_lead_commit(s) ==
    /\ sessions[s].op = "convert_lead"
    /\ LET r == sessions[s]
           session == convert_lead_session(r.loaded, contacts, activities, r.u, utcnow)
       IN  IF contact_email_taken(contacts, r.loaded.email)
           THEN UNCHANGED <<lead, contacts, activities, call>>
           ELSE /\ lead' = [lead EXCEPT ![LeadId] = Flush(LeadRow, r.loaded, session.lead)]
                /\ contacts' = session.contacts
                /\ activities' = session.activities
                /\ call' = Call("convert_lead")
    /\ Done(s)
    /\ UNCHANGED <<deal, today, trail, tasks>>

\* update_lead_score up to its commit: update_score on the loaded lead.  The
\* race ends when the trail is full.
update_lead_score_read(s, u, points) ==
    /\ Free(s)
    /\ lead # <<>>
    /\ Len(trail) < ScoreTrail
    /\ IF ~can_edit(u, LeadRow) \/ points.json # "int"
       THEN UNCHANGED sessions
       ELSE Serve(s, [op |-> "update_lead_score", u |-> u, points |-> points.n,
                      loaded |-> LeadRow, obj |-> update_score(LeadRow, points.n)])
    /\ UNCHANGED <<deal, lead, today, call, trail, contacts, activities, tasks>>

\* The commit of update_lead_score; the trail keeps what the request saw
update_lead_score_commit(s) ==
    /\ sessions[s].op = "update_lead_score"
    /\ LET r == sessions[s]
       IN  /\ lead' = [lead EXCEPT ![LeadId] = Flush(LeadRow, r.loaded, r.obj)]
           /\ trail' = Append(trail, ScoreSeen(r.loaded.score, r.points, r.obj))
    /\ call' = Call("update_lead_score")
    /\ Done(s)
    /\ UNCHANGED <<deal, today, contacts, activities, tasks>>

\* move_deal_stage up to its commit: move_to_stage on the loaded deal
move_deal_stage_read(s, u, new_stage) ==
    /\ Free(s)
    /\ Exists
    /\ IF ~can_edit(u, Row) \/ ~TruthyStr(new_stage)
       THEN UNCHANGED sessions
       ELSE Serve(s, [op |-> "move_deal_stage", u |-> u,
                      loaded |-> Row, obj |-> move_to_stage(Row, new_stage, today)])
    /\ UNCHANGED <<deal, lead, today, call, trail, contacts, activities, tasks>>

\* edit_deal up to its commit: the form's fields assigned to the loaded deal
edit_deal_read(s, u, value, stage, expected) ==
    /\ Free(s)
    /\ Exists
    /\ IF ~can_edit(u, Row)
       THEN UNCHANGED sessions
       ELSE Serve(s, [op |-> "edit_deal", u |-> u,
                      loaded |-> Row, obj |-> edit_deal_object(Row, value, stage, expected, today)])
    /\ UNCHANGED <<deal, lead, today, call, trail, contacts, activities, tasks>>

\* The commit of move_deal_stage or edit_deal.  It raises, and the session is
\* rolled back, when the value is None (deals.value is NOT NULL).
deal_commit(s) ==
    /\ sessions[s].op \in {"move_deal_stage", "edit_deal"}
    /\ Exists
    /\ LET r == sessions[s]
       IN  IF r.obj.value = Null
           THEN UNCHANGED <<deal, call>>
           ELSE /\ deal' = <<Flush(Row, r.loaded, r.obj)>>
                /\ call' = Call(r.op)
    /\ Done(s)
    /\ UNCHANGED <<lead, today, trail, contacts, activities, tasks>>

CyForm == [AnnForm EXCEPT !.first_name = "Cy", !.email = "cy@example.com"]

\* Creations and conversions side by side, next to a lead, a contact and a
\* deal that exist
ConcurrentNext ==
    \/ \E s \in Slots, form \in {AnnForm, CyForm} : create_contact_read(s, 1, form)
    \/ \E s \in Slots : create_contact_commit(s)
    \/ \E s \in Slots : create_contact_log(s)
    \/ \E s \in Slots, form \in {AnnForm, CyForm} : create_lead_read(s, 1, form)
    \/ \E s \in Slots : create_lead_commit(s)
    \/ \E s \in Slots : create_lead_log(s)
    \/ \E s \in Slots : convert_lead_read(s, 1)
    \/ \E s \in Slots : convert_lead_commit(s)
    \/ delete_contact(1, 2, FALSE)

ConcurrentSpec == PermissionInit /\ [][ConcurrentNext]_vars

\* Score points of the race
RacePoints == {[json |-> "int", n |-> n] : n \in {30, 40}}

\* Updates of the same lead and of the same deal side by side
RaceNext ==
    \/ \E s \in Slots, points \in RacePoints : update_lead_score_read(s, 1, points)
    \/ \E s \in Slots : update_lead_score_commit(s)
    \/ \E s \in Slots, new_stage \in {"qualified", "closed_won"} :
            move_deal_stage_read(s, 1, new_stage)
    \/ \E s \in Slots, value \in {Null, 5} : edit_deal_read(s, 1, value, "negotiation", NoDate)
    \/ \E s \in Slots : deal_commit(s)

RaceSpec == PermissionInit /\ [][RaceNext]_vars

-----------------------------------------------------------------------------
(* The whole system *)

Next ==
    \/ DealNext \/ PipelineNext \/ ScoreNext \/ LeadNext \/ ActivitiesNext
    \/ PermissionNext \/ CreateNext \/ ConcurrentNext \/ RaceNext \/ CascadeNext

Spec == Init /\ [][Next]_vars

-----------------------------------------------------------------------------
(* Claims *)

\* The stage -> probability table as the specification states it
TableStages == {"prospecting", "qualified", "proposal", "negotiation", "closed_won", "closed_lost"}

Table(s) ==
    CASE s = "prospecting" -> 10
      [] s = "qualified"   -> 25
      [] s = "proposal"    -> 50
      [] s = "negotiation" -> 75
      [] s = "closed_won"  -> 100
      [] s = "closed_lost" -> 0

ClosedStages == {"closed_won", "closed_lost"}

\* A step in which move_to_stage(s) is applied to the deal: the method called
\* directly, or a move_deal_stage request that goes through
MovedToStage(s) ==
    \/ Deal_move_to_stage(s)
    \/ /\ call' = Call("move_deal_stage")
       /\ \E u \in UserIds : move_deal_stage(u, s, FALSE)

\* What move_to_stage(s) leaves, given the deal before the call
MoveToStagePost(s) ==
    /\ deal'[1].stage = s
    /\ s \in TableStages => deal'[1].probability = Table(s)
    /\ s \notin TableStages => deal'[1].probability = Row.probability
    /\ s = "closed_won" => deal'[1].status = "won" /\ deal'[1].actual_close_date = today
    /\ s = "closed_lost" => deal'[1].status = "lost" /\ deal'[1].actual_close_date = today

\* C1: move_to_stage(s) sets stage to s; for s in the table it sets probability
\* to table[s], for any other s probability keeps its value from before the
\* call; closed_won leaves status won and actual_close_date today, closed_lost
\* leaves status lost and actual_close_date today.
C1_MoveToStage ==
    [][call'.op \in {"move_to_stage", "move_deal_stage"} /\ vars' # vars =>
        \A s \in StageInputs : MovedToStage(s) => MoveToStagePost(s)]_vars

\* A deal moved from negotiation to a stage outside the table keeps probability 75
C1_Witness ==
    /\ Exists
    /\ call.op = "move_to_stage"
    /\ Row.stage = "on_hold"
    /\ Row.probability = 75

\* C2: in every reachable state, stage closed_won implies status won and
\* probability 100, and stage closed_lost implies status lost and probability 0.
C2_ClosedStageImpliesStatus ==
    Exists =>
        /\ Row.stage = "closed_won" => Row.status = "won" /\ Row.probability = 100
        /\ Row.stage = "closed_lost" => Row.status = "lost" /\ Row.probability = 0

\* An open deal edited into closed_won
C2_Witness ==
    /\ Exists
    /\ call.op = "edit_deal"
    /\ Row.stage = "closed_won"
    /\ Row.status = "won"
    /\ Row.actual_close_date = today

\* C3: status is derived from stage in every reachable state: won exactly when
\* the stage is closed_won, lost exactly when it is closed_lost, open for every
\* other stage.
C3_StatusDerivedFromStage ==
    Exists =>
        /\ Row.status = "won" <=> Row.stage = "closed_won"
        /\ Row.status = "lost" <=> Row.stage = "closed_lost"
        /\ Row.stage \notin ClosedStages => Row.status = "open"

\* C4: in every reachable state whose stage is one of the six table stages,
\* probability equals the table value of that stage.
C4_ProbabilityDerivedFromStage ==
    Exists /\ Row.stage \in TableStages => Row.probability = Table(Row.stage)

\* A deal created straight into the proposal stage
C4_Witness ==
    /\ Exists
    /\ call.op = "create_deal"
    /\ Row.stage = "proposal"
    /\ Row.probability = 50

\* C5: closed_won and closed_lost are terminal: once the stage is closed_won or
\* closed_lost no later operation changes it.
C5_ClosedStagesTerminal ==
    [][Exists /\ Row.stage \in ClosedStages => deal'[1].stage = Row.stage]_vars

\* A step in which mark_as_won(close_date) is applied to the deal
MarkedWon(close_date) ==
    \/ Deal_mark_as_won(close_date)
    \/ /\ close_date = Null
       /\ call' = Call("mark_deal_won")
       /\ \E u \in UserIds : mark_deal_won(u, FALSE)

\* A step in which mark_as_lost(reason, close_date) is applied to the deal
MarkedLost(reason, close_date) ==
    \/ Deal_mark_as_lost(reason, close_date)
    \/ /\ close_date = Null
       /\ call' = Call("mark_deal_lost")
       /\ \E u \in UserIds : mark_deal_lost(u, reason, FALSE)

\* The close date a terminal operation leaves: the one given, today without one
CloseDatePost(close_date) ==
    deal'[1].actual_close_date = IF close_date = Null THEN today ELSE close_date

\* C6: from any deal state mark_as_won(close_date?) leaves status won, stage
\* closed_won, probability 100, and mark_as_lost(reason, close_date?) leaves
\* status lost, stage closed_lost, probability 0 and lost_reason = reason; in
\* both actual_close_date is the given close date, or today when none is given.
C6_MarkAsWonLost ==
    [][call'.op \in {"mark_as_won", "mark_deal_won", "mark_as_lost", "mark_deal_lost"} =>
       /\ \A close_date \in Dates \cup {Null} :
            MarkedWon(close_date) =>
                /\ deal'[1].status = "won"
                /\ deal'[1].stage = "closed_won"
                /\ deal'[1].probability = 100
                /\ CloseDatePost(close_date)
       /\ \A reason \in ReasonInputs \cup {NullStr}, close_date \in Dates \cup {Null} :
            MarkedLost(reason, close_date) =>
                /\ deal'[1].status = "lost"
                /\ deal'[1].stage = "closed_lost"
                /\ deal'[1].probability = 0
                /\ deal'[1].lost_reason = reason
                /\ CloseDatePost(close_date)]_vars

\* A deal marked lost with a reason and an explicit close date that is not today
C6_Witness ==
    /\ Exists
    /\ call.op = "mark_as_lost"
    /\ Row.status = "lost"
    /\ Row.lost_reason = "price"
    /\ Row.actual_close_date > today

\* C7: for value >= 0 and probability in [0,100] get_weighted_value() is
\* value * probability / 100; it is 0 for a closed_lost deal and the value
\* itself for a closed_won deal.
C7_WeightedValue ==
    Exists /\ Row.value >= 0 /\ Row.probability \in 0..100 =>
        LET w == get_weighted_value(Row)
        IN  /\ w.den > 0
            /\ w.num * 100 = Row.value * Row.probability * w.den
            /\ Row.stage = "closed_lost" => w.num = 0
            /\ Row.stage = "closed_won" => w.num = Row.value * w.den

\* A deal of value 3 at 25 percent weighs three quarters
C7_Witness ==
    /\ Exists
    /\ Row.value = 3
    /\ Row.stage = "qualified"
    /\ get_weighted_value(Row) = [num |-> 3, den |-> 4]

\* The deal of value 100000 whose latest three moves were to prospecting,
\* qualified and proposal
PipelineScenario ==
    /\ Exists
    /\ Row.value = 100000
    /\ Len(trail) = 3
    /\ trail[1].stage = "prospecting"
    /\ trail[2].stage = "qualified"
    /\ trail[3].stage = "proposal"

PipelineProbabilities ==
    /\ trail[1].probability = 10
    /\ trail[2].probability = 25
    /\ trail[3].probability = 50

\* C8 as stated: the deal of value 100000 moved through prospecting, qualified
\* and proposal has probability 10, 25, 50 and weighted value 25000 at proposal.
C8_ScenarioAsStated ==
    PipelineScenario =>
        /\ PipelineProbabilities
        /\ get_weighted_value(Row) = [num |-> 25000, den |-> 1]

\* C8 amended: the deal of value 100000 moved through prospecting, qualified
\* and proposal has probability 10, 25, 50 and weighted value 50000 at
\* proposal; 25000 is its weighted value at qualified.
C8_Scenario ==
    /\ PipelineScenario =>
        /\ PipelineProbabilities
        /\ get_weighted_value(Row) = [num |-> 50000, den |-> 1]
    /\ Exists /\ Row.value = 100000 /\ Row.stage = "qualified" =>
        get_weighted_value(Row) = [num |-> 25000, den |-> 1]

C8_Witness == PipelineScenario /\ Row.stage = "proposal" /\ Row.probability = 50

\* A step that closes the deal
Closed ==
    \/ \E s \in ClosedStages : MovedToStage(s)
    \/ \E close_date \in Dates \cup {Null} : MarkedWon(close_date)
    \/ \E reason \in ReasonInputs \cup {NullStr}, close_date \in Dates \cup {Null} :
            MarkedLost(reason, close_date)

\* C9: is_overdue() is true exactly when status is open and expected_close_date
\* is earlier than today; it is false for every won or lost deal and for a deal
\* without expected_close_date, so closing an overdue deal makes it not overdue.
C9_DealOverdue ==
    /\ [](Exists =>
            /\ is_overdue(Row, today) <=>
                  /\ Row.status = "open"
                  /\ Row.expected_close_date # Null
                  /\ Row.expected_close_date < today
            /\ Row.status \in {"won", "lost"} => ~is_overdue(Row, today)
            /\ Row.expected_close_date = Null => ~is_overdue(Row, today))
    /\ [][Exists /\ is_overdue(Row, today) /\ Closed => ~is_overdue(deal'[1], today')]_vars

\* A deal closed a day after its expected close date
C9_Witness ==
    /\ Exists
    /\ call.op \in {"mark_deal_won", "mark_deal_lost"}
    /\ Row.expected_close_date = 0
    /\ Row.actual_close_date = 1
    /\ today = 1
    /\ ~is_overdue(Row, today)

\* score + p clamped to [0, 100]
Clamped(n) == IF n < 0 THEN 0 ELSE IF n > 100 THEN 100 ELSE n

\* The temperature band of a score
Band(score) ==
    CASE score >= 70 -> "hot"
      [] score >= 40 /\ score < 70 -> "warm"
      [] score < 40 -> "cold"

\* A step in which update_score(p) is applied to the lead
ScoreUpdated(p) ==
    \/ Lead_update_score(p)
    \/ /\ call' = Call("update_lead_score")
       /\ \E u \in UserIds :
            can_edit(u, LeadRow) /\ update_lead_score(u, [json |-> "int", n |-> p], FALSE)

IntPoints == {points.n : points \in {q \in PointsInputs : q.json = "int"}}

\* C10: for every integer p and every starting score in [0,100] update_score(p)
\* leaves score = max(0, min(100, score + p)) and the temperature of the new
\* score: hot from 70, warm from 40 to 69, cold below 40 (39 cold, 40 warm,
\* 69 warm, 70 hot).  From score 0, +45 gives 45 / warm and then +30 gives
\* 75 / hot.
C10_UpdateScore ==
    /\ [][\A p \in IntPoints :
            ScoreUpdated(p) =>
                /\ LeadRow.score \in 0..100
                /\ lead'[1].score = Clamped(LeadRow.score + p)
                /\ lead'[1].temperature = Band(lead'[1].score)
                /\ lead'[1].score = 39 => lead'[1].temperature = "cold"
                /\ lead'[1].score = 40 => lead'[1].temperature = "warm"
                /\ lead'[1].score = 69 => lead'[1].temperature = "warm"
                /\ lead'[1].score = 70 => lead'[1].temperature = "hot"]_vars
    /\ [](/\ Len(trail) = 2
          /\ trail[1].before = 0
          /\ trail[1].points = 45
          /\ trail[2].points = 30
          => /\ trail[1].score = 45
             /\ trail[1].temperature = "warm"
             /\ trail[2].score = 75
             /\ trail[2].temperature = "hot"
             /\ LeadRow.score = 75
             /\ LeadRow.temperature = "hot")

\* The lead created at score 0 after +45 and then +30
C10_Witness ==
    /\ Len(trail) = 2
    /\ trail[1].before = 0
    /\ trail[1].points = 45
    /\ trail[2].before = 45
    /\ trail[2].points = 30
    /\ LeadRow.score = 75
    /\ LeadRow.temperature = "hot"

\* C11: whenever a lead exists, its temperature is hot exactly when score >= 70,
\* warm exactly when 40 <= score < 70 and cold exactly when score < 40, after
\* any sequence of create_lead, edit_lead, update_score and convert_to_contact,
\* the newly created lead (score 0, cold) included.
C11_TemperatureFromScore ==
    lead # <<>> =>
        /\ LeadRow.temperature = "hot" <=> LeadRow.score >= 70
        /\ LeadRow.temperature = "warm" <=> (40 <= LeadRow.score /\ LeadRow.score < 70)
        /\ LeadRow.temperature = "cold" <=> LeadRow.score < 40

\* A converted and then edited lead scored up to exactly 70
C11_Witness ==
    /\ lead # <<>>
    /\ LeadRow.converted_to_contact_id # Null
    /\ LeadRow.company = "Initech"
    /\ LeadRow.score = 70
    /\ LeadRow.temperature = "hot"

\* C12: once a lead's status is converted, no later operation changes its
\* status to another value.
C12_ConvertedStatusKept ==
    [][lead # <<>> /\ LeadRow.status = "converted" => lead'[1].status = "converted"]_vars

\* C13: convert_to_contact(id) leaves status converted, converted_to_contact_id
\* = id and converted_at set; called on a lead that already carries a
\* converted_at it keeps that first timestamp.
C13_ConvertToContact ==
    [][\A id \in {1, 2} :
         Lead_convert_to_contact(id) =>
            /\ lead'[1].status = "converted"
            /\ lead'[1].converted_to_contact_id = id
            /\ lead'[1].converted_at # Null
            /\ LeadRow.converted_at # Null => lead'[1].converted_at = LeadRow.converted_at]_vars

\* The conversion columns of the lead
Conversion(l) == <<l.converted_to_contact_id, l.converted_at>>

\* C14: over any sequence of convert_lead, edit_lead and update_lead_score
\* requests on one lead at most one contact is created for it, and a
\* convert_lead request on a lead whose status is converted creates no
\* contact and leaves converted_to_contact_id and converted_at as they were.
C14_ConvertOnce ==
    /\ [](Cardinality(contacts) <= 1)
    /\ [][\A u \in UserIds, db_fails \in BOOLEAN :
            lead # <<>> /\ LeadRow.status = "converted" /\ convert_lead(u, db_fails) =>
                /\ contacts' = contacts
                /\ Conversion(lead'[1]) = Conversion(LeadRow)]_vars

\* A converted lead edited back to new while its contact exists
C14_Witness ==
    /\ lead # <<>>
    /\ call.op = "edit_lead"
    /\ LeadRow.status = "new"
    /\ LeadRow.converted_to_contact_id = 1
    /\ \E c \in contacts : c.id = 1 /\ c.email = LeadRow.email

\* The columns convert_lead copies from the lead to the contact
Copied(r) ==
    <<r.first_name, r.last_name, r.email, r.phone, r.company, r.job_title,
      r.source, r.notes, r.owner_id>>

\* C15: a convert_lead request either persists all three changes (a contact
\* with the lead's name, email, phone, company, job_title, source, notes and
\* owner_id, the lead converted to that contact's id, the Lead Converted
\* activity) or none of them, as when the contact's email is already taken,
\* and then the lead keeps its status.
C15_ConvertAllOrNothing ==
    [][\A u \in UserIds, db_fails \in BOOLEAN :
         convert_lead(u, db_fails) =>
            \/ /\ lead' = lead
               /\ contacts' = contacts
               /\ activities' = activities
            \/ /\ ~contact_email_taken(contacts, LeadRow.email)
               /\ \E c \in contacts' \ contacts :
                     /\ contacts' = contacts \cup {c}
                     /\ Copied(c) = Copied(LeadRow)
                     /\ Copied(c) = Copied(lead'[1])
                     /\ lead'[1].status = "converted"
                     /\ lead'[1].converted_to_contact_id = c.id
                     /\ \E a \in activities' \ activities :
                           /\ activities' = activities \cup {a}
                           /\ a.subject = "Lead Converted"
                           /\ a.lead_id = LeadId
                           /\ a.contact_id = c.id]_vars

\* The admin has converted the other user's lead
C15_Witness ==
    /\ lead # <<>>
    /\ call.op = "convert_lead"
    /\ LeadRow.status = "converted"
    /\ LeadRow.owner_id = 2
    /\ \E c \in contacts : c.id = LeadRow.converted_to_contact_id /\ c.owner_id = 2
    /\ \E a \in activities : a.subject = "Lead Converted" /\ a.user_id = 1

\* C16: Task.is_overdue() is true exactly when the task has a due_date earlier
\* than now and its status is not completed, whatever else the status is; once
\* a task is completed it stays completed and is_overdue() stays false.
C16_TaskOverdue ==
    /\ [](\A t \in tasks :
            /\ task_is_overdue(t, utcnow) <=>
                  /\ t.due_date # Null
                  /\ t.due_date < utcnow
                  /\ t.status # "completed"
            /\ t.status = "completed" => ~task_is_overdue(t, utcnow))
    /\ [][\A t \in tasks :
            t.status = "completed" =>
                \E t2 \in tasks' :
                    /\ t2.id = t.id
                    /\ t2.status = "completed"
                    /\ ~task_is_overdue(t2, utcnow')]_vars

\* A task completed by request a day after its due date
C16_Witness ==
    /\ call.op = "complete_task"
    /\ \E t \in tasks :
          /\ t.status = "completed"
          /\ t.due_date = 0
          /\ t.completed_at = 1
          /\ ~task_is_overdue(t, utcnow)

\* C17: once an activity is completed every later operation leaves all its
\* fields but outcome as they are, is_completed and completed_at included.
C17_CompletedActivityFrozen ==
    [][\A a \in activities :
         a.is_completed =>
            \E a2 \in activities' :
                /\ a2.id = a.id
                /\ [a2 EXCEPT !.outcome = a.outcome] = a]_vars

\* The persisted rows of every entity
Tables == <<lead, deal, contacts, activities, tasks>>

\* The capability as the specification states it: role admin, or the owner
MayEdit(u, resource) == Users[u] = "admin" \/ resource.owner_id = u

\* A step of a request of user u on the lead, on the deal, on contact c
LeadRequest(u) ==
    \/ \E form \in EditLeadForms, db_fails \in BOOLEAN : edit_lead(u, form, db_fails)
    \/ \E db_fails \in BOOLEAN : convert_lead(u, db_fails)
    \/ \E points \in PointsInputs, db_fails \in BOOLEAN : update_lead_score(u, points, db_fails)

DealRequest(u) ==
    \/ \E value \in ValueInputs, stage \in StageInputs, expected \in DateInputs :
            edit_deal(u, value, stage, expected)
    \/ \E new_stage \in StageInputs, db_fails \in BOOLEAN : move_deal_stage(u, new_stage, db_fails)
    \/ \E db_fails \in BOOLEAN : mark_deal_won(u, db_fails)
    \/ \E reason \in ReasonInputs, db_fails \in BOOLEAN : mark_deal_lost(u, reason, db_fails)

ContactRequest(u, c) ==
    \/ \E form \in EditContactForms, fail \in {"none", "first", "second"} :
            edit_contact(u, c.id, form, fail)
    \/ \E db_fails \in BOOLEAN : delete_contact(u, c.id, db_fails)

\* C18: can_edit is true exactly for an admin and for the owner of the
\* resource, and a request of edit_lead, convert_lead, update_lead_score,
\* edit_deal, move_deal_stage, mark_deal_won, mark_deal_lost, edit_contact or
\* delete_contact by a user for whom it is false leaves every persisted row of
\* every entity unchanged.
C18_PermissionChecked ==
    /\ [](\A u \in UserIds :
            /\ lead # <<>> => (can_edit(u, LeadRow) <=> MayEdit(u, LeadRow))
            /\ Exists => (can_edit(u, Row) <=> MayEdit(u, Row))
            /\ \A c \in contacts : can_edit(u, c) <=> MayEdit(u, c))
    /\ [][\A u \in UserIds :
            /\ lead # <<>> /\ ~MayEdit(u, LeadRow) /\ LeadRequest(u) => UNCHANGED Tables
            /\ Exists /\ ~MayEdit(u, Row) /\ DealRequest(u) => UNCHANGED Tables
            /\ \A c \in contacts :
                  ~MayEdit(u, c) /\ ContactRequest(u, c) => UNCHANGED Tables]_vars

\* The admin's lead, deal and contact after a change by the admin: the
\* other user may edit none of them
C18_Witness ==
    /\ call.op \in {"edit_lead", "edit_deal", "edit_contact"}
    /\ lead # <<>> /\ LeadRow.owner_id = 1 /\ ~can_edit(2, LeadRow)
    /\ Exists /\ Row.owner_id = 1 /\ ~can_edit(2, Row)
    /\ \E c \in contacts : c.owner_id = 1 /\ ~can_edit(2, c)

\* C19: a create_lead, create_contact or create_deal request that reports a
\* validation error (a required field missing, a duplicate email, a negative
\* deal value, an invalid date format) adds no row and changes no row.
C19_InvalidCreateWritesNothing ==
    [][\A u \in UserIds, fail \in {"none", "first", "second"} :
         /\ \A form \in PersonForms :
               /\ create_lead_errors(form) # {} /\ create_lead(u, form, fail)
                    => UNCHANGED Tables
               /\ create_contact_errors(form) # {} /\ create_contact(u, form, fail)
                    => UNCHANGED Tables
         /\ \A title \in TitleInputs, value \in ValueInputs, contact_id \in ContactInputs,
               stage \in StageInputs, expected \in DateInputs :
               /\ create_deal_errors(title, value, contact_id) # {}
                    \/ create_deal_date_error(expected)
               /\ create_deal(u, title, value, contact_id, stage, expected, fail)
               => UNCHANGED Tables]_vars

\* C20: a create_lead, create_contact, create_deal or edit_contact request
\* one of whose commits raises leaves no write persisted: no new lead,
\* contact or deal and no edit, whichever commit it was.
C20_FailedCommitRolledBack ==
    [][\A u \in UserIds, fail \in {"first", "second"} :
         /\ \A form \in PersonForms :
               /\ create_lead_errors(form) = {} /\ create_lead(u, form, fail)
                    => UNCHANGED Tables
               /\ create_contact_errors(form) = {} /\ create_contact(u, form, fail)
                    => UNCHANGED Tables
         /\ \A title \in TitleInputs, value \in ValueInputs, contact_id \in ContactInputs,
               stage \in StageInputs, expected \in DateInputs :
               /\ create_deal_errors(title, value, contact_id) = {}
               /\ create_deal(u, title, value, contact_id, stage, expected, fail)
               => UNCHANGED Tables
         /\ \A c \in contacts, form \in EditContactForms :
               can_edit(u, c) /\ edit_contact(u, c.id, form, fail) => UNCHANGED Tables]_vars

\* C21: in every reachable state no two contacts share an email and no two
\* leads share an email, whatever the interleaving of create_contact,
\* create_lead, convert_lead and delete_contact; and a request whose INSERT
\* would add a second row with an email (a create that passed the existence
\* check beside another one, a convert_lead whose lead email belongs to a
\* contact) leaves every table unchanged.
C21_EmailUnique ==
    /\ [](/\ \A c, d \in contacts : c.email = d.email => c = d
          /\ \A i, j \in DOMAIN lead : lead[i].email = lead[j].email => i = j)
    /\ [][\A s \in Slots :
            /\ create_contact_commit(s) /\ contact_email_taken(contacts, sessions[s].form.email)
                 => UNCHANGED Tables
            /\ create_lead_commit(s) /\ lead_email_taken(lead, sessions[s].form.email)
                 => UNCHANGED Tables
            /\ convert_lead_commit(s) /\ contact_email_taken(contacts, sessions[s].loaded.email)
                 => UNCHANGED Tables]_vars

\* Two create_contact requests passed the existence check for the same email;
\* the first has inserted its contact, the second is about to commit.  Two
\* leads with different emails exist.
C21_Witness ==
    /\ Len(lead) = 2
    /\ \E s, t \in Slots :
          /\ sessions[s].op = "create_contact" /\ sessions[s].pc = "log"
          /\ sessions[t].op = "create_contact" /\ sessions[t].pc = "add"
          /\ sessions[t].form.email = sessions[s].form.email
          /\ contact_email_taken(contacts, sessions[t].form.email)

\* C22: in every state reachable by create_deal and edit_deal requests the
\* persisted deal has a value that is not null and is >= 0.
C22_ValueNonNegative == Exists => Row.value # Null /\ Row.value >= 0

\* C23: in every state reachable by create_deal, edit_deal, move_deal_stage,
\* mark_deal_won and mark_deal_lost requests the deal's stage is one of the
\* six stages, its probability is in [0,100] and its status is open, won or
\* lost, whatever stage string a request carries.
C23_StageInTable ==
    Exists => /\ Row.stage \in TableStages
              /\ Row.probability \in 0..100
              /\ Row.status \in {"open", "won", "lost"}

\* The columns a session's UPDATE writes: those it changed since its load
Written(r) == {f \in DOMAIN r.loaded : r.obj[f] # r.loaded[f]}

C25_ToDictLossless ==
    /\ [](lead # <<>> => "full_name" \in DOMAIN Lead_to_dict(LeadRow))
    /\ [][lead # <<>> /\ lead' # <<>> /\ lead'[1] # lead[1]
            => Lead_to_dict(lead'[1]) # Lead_to_dict(lead[1])]_vars

\* C26: after delete_contact commits, no deal, activity or task row references
\* the deleted contact, and no activity or task row references a deal that
\* was deleted with it.
C26_DeleteCascades ==
    [][\A c \in contacts :
         c \notin contacts' =>
            LET deal_deleted == Exists /\ deal' = <<>>
            IN  /\ deal' = <<>> \/ deal'[1].contact_id # c.id
                /\ \A a \in activities' :
                      a.contact_id # c.id /\ (deal_deleted => a.deal_id # DealId)
                /\ \A t \in tasks' :
                      t.contact_id # c.id /\ (deal_deleted => t.deal_id # DealId)]_vars

\* The rows of a table the user owns
Own(u, rows) == {r \in rows : r.owner_id = u}

\* C27: for a user who is not an admin, the list, detail and statistics
\* endpoints for contacts, leads and deals return only rows the user owns and
\* return the same with the other users' rows taken away; a detail request for
\* another user's row is refused.
C27_OwnershipScopesReads ==
    \A u \in UserIds :
        ~is_admin(u) =>
            /\ list_contacts(u, contacts) = Own(u, contacts)
            /\ list_leads(u, Leads) = Own(u, Leads)
            /\ list_deals(u, Deals) = Own(u, Deals)
            /\ api_get_stats(u, contacts, Leads, Deals)
                 = api_get_stats(u, Own(u, contacts), Own(u, Leads), Own(u, Deals))
            /\ \A l \in Leads : l.owner_id # u => view_lead(u, l) = Refused
            /\ \A d \in Deals : d.owner_id # u => view_deal(u, d) = Refused
            /\ \A c \in contacts :
                  IF c.owner_id # u
                  THEN view_contact(u, c, Deals) = Refused /\ api_get_contact(u, c) = Refused
                  ELSE /\ view_contact(u, c, Deals) = view_contact(u, c, Own(u, Deals))
                       /\ \A d \in view_contact(u, c, Deals).deals : d.owner_id = u

\* C28: once a deal's status is won or lost every later operation leaves it
\* won or lost, and move_to_stage to a stage that is not closed leaves status
\* and actual_close_date as they were.
C28_StatusNeverReopens ==
    [][/\ Exists /\ Row.status \in {"won", "lost"} /\ deal' # <<>>
            => deal'[1].status \in {"won", "lost"}
       /\ call'.op \in {"move_to_stage", "move_deal_stage"} /\ vars' # vars =>
            \A s \in StageInputs \ ClosedStages :
                MovedToStage(s) => /\ deal'[1].status = Row.status
                                   /\ deal'[1].actual_close_date = Row.actual_close_date]_vars

\* A won deal moved back to qualified by move_deal_stage is still won
C28_Witness ==
    /\ Exists
    /\ call.op = "move_deal_stage"
    /\ Row.stage = "qualified"
    /\ Row.status = "won"
    /\ Row.actual_close_date # Null

\* The contacts that carry the lead's email
ContactsOfLead == {c \in contacts : c.email = LeadRow.email}

\* C29: two convert_lead requests that both read the unconverted lead leave
\* at most one contact for it: a commit that inserts a contact sets the
\* lead's converted_to_contact_id to that contact's id, a commit that finds
\* the lead's contact in place inserts nothing and changes nothing.
C29_ConcurrentConvertOnce ==
    /\ [](lead # <<>> => Cardinality(ContactsOfLead) <= 1)
    /\ [][\A s \in Slots :
            convert_lead_commit(s) =>
               /\ Cardinality(contacts' \ contacts) <= 1
               /\ \A c \in contacts' \ contacts :
                     /\ c.email = LeadRow.email
                     /\ lead'[LeadId].status = "converted"
                     /\ lead'[LeadId].converted_to_contact_id = c.id
               /\ ContactsOfLead # {} => UNCHANGED Tables]_vars

\* The lead was converted by one request while another, which read it
\* unconverted, has yet to commit
C29_Witness ==
    /\ lead # <<>>
    /\ LeadRow.status = "converted"
    /\ \E c \in contacts : c.id = LeadRow.converted_to_contact_id /\ c.email = LeadRow.email
    /\ \E s \in Slots :
          /\ sessions[s].op = "convert_lead"
          /\ sessions[s].loaded.status # "converted"

\* C30: in every state reachable by create_lead, edit_lead, convert_lead and
\* delete_contact requests, a lead whose status is converted has a converted_at
\* that is not null and a converted_to_contact_id that is the id of a contact.
C30_ConvertedLeadHasContact ==
    lead # <<>> /\ LeadRow.status = "converted" =>
        /\ LeadRow.converted_at # Null
        /\ \E c \in contacts : c.id = LeadRow.converted_to_contact_id

====
